---- MODULE Spec2Model ----
(***************************************************************************)
(* Macro invocation dispatch of libsyntax (src/libsyntax/ext/base.rs):     *)
(*   - the Resolver port and the Determinacy protocol, driven by the       *)
(*     expander's fixed-point loop;                                        *)
(*   - the MacResult protocol with its implementors MacEager and           *)
(*     DummyResult;                                                        *)
(*   - the SyntaxExtension descriptor and its classification.              *)
(* Each component is exercised by a specification of its own; the          *)
(* variables of the other components keep their idle values.               *)
(***************************************************************************)
EXTENDS Integers, Sequences, FiniteSets, TLC

\* ---------------------------------------------------------------- bounds
\* The largest number of pending invocations of one expansion session.
MaxInv == 3
\* Spans are 1..MaxSpan.
MaxSpan == 2
\* The largest number of fields of a MacEager that hold a value.
MaxFields == 2
\* The largest number of calls of kind() on one descriptor.
MaxCalls == 2
\* The largest number of tokens of a macro's raw input.
MaxTts == 4
\* The largest number of expansion identities (marks) besides the root.
MaxMarks == 3
\* The configured maximum nesting depth (ecfg.recursion_limit), kept small.
recursion_limit == 2
\* The largest number of invocations one expansion session meets.
MaxExpand == 5

VARIABLES
    \* --- Resolver port and fixed-point loop
    n,                          \* number of invocations of the session, 1..n in textual order
    deps,                       \* deps[i]: the invocations whose expansion i's macro name waits for
    defined,                    \* invocations whose name exists once their dependencies expanded
    resolver,                   \* "Dummy" (DummyResolver) or "Real" (a name-resolution subsystem)
    invocations,                \* the worklist of the current pass
    undetermined_invocations,   \* invocations put back for the next pass
    progress,                   \* some invocation left Undetermined in the current pass
    force,                      \* the current pass force-resolves
    passes,                     \* number of the current pass
    expanded,                   \* invocations resolved Ok and expanded
    reported,                   \* invocations reported as unresolved
    forced,                     \* invocations reported only because the pass was forced
    fpc,                        \* "run" or "done"
    \* --- MacResult protocol
    producer,                   \* the Box<dyn MacResult> an expander returned
    query,                      \* the make_* method called on it, or "none"
    result,                     \* what the method returned (an Option)
    \* --- SyntaxExtension
    ext,                        \* the descriptor
    default_edition,            \* what hygiene::default_edition() returns
    kinds,                      \* the values kind() returned, in call order
    transparencies,             \* the values default_transparency() returned
    editions,                   \* the values edition() returned
    \* --- argument-extraction helpers
    tts,                        \* the raw input of the macro
    helper,                     \* the helper called on it, or "none"
    ret,                        \* what the helper returned (an Option)
    diags,                      \* the diagnostics emitted during the call, in order
    fatal,                      \* the call raised FatalError and did not return
    \* --- expansion_cause
    expn_info,                  \* mark -> Option<ExpnInfo>, the hygiene data
    mark,                       \* cx.current_expansion.mark
    ctxt,                       \* the loop's ctxt (the outer mark of the context)
    last_macro,                 \* the loop's last_macro
    cause,                      \* "none", "loop", or "done": expansion_cause's position
    \* --- the expansion session
    session,                    \* "running", "unwound" (FatalError), "finished", "aborted"
    depth,                      \* cx.current_expansion.depth
    frames,                     \* open fragments: saved depth and invocations left in each
    sink,                       \* the diagnostics handed to parse_sess.span_diagnostic
    producers,                  \* the MacResult producer of each invocation dealt with
    found                       \* the number of invocations met so far

resolveVars == <<n, deps, defined, resolver, invocations, undetermined_invocations,
                 progress, force, passes, expanded, reported, forced, fpc>>
macVars == <<producer, query, result>>
extVars == <<ext, default_edition, kinds, transparencies, editions>>
argVars == <<tts, helper, ret, diags, fatal>>
causeVars == <<expn_info, mark, ctxt, last_macro, cause>>
sessVars == <<session, depth, frames, sink, producers, found>>
vars == <<resolveVars, macVars, extVars, argVars, causeVars, sessVars>>

\* Option<T>: None is the empty sequence, Some(x) the one-element sequence.
None == <<>>
Some(x) == <<x>>
IsSome(o) == Len(o) = 1
Unwrap(o) == o[1]

Range(s) == {s[k] : k \in 1..Len(s)}

\* ======================================================================
\*  Resolver port, Determinacy, fixed-point loop
\* ======================================================================

\* Determinacy::determined
\* (determined_swapped: the two answers exchanged)
determined_swapped(d) == IF d THEN "Undetermined" ELSE "Determined"
determined(d) == IF d THEN "Determined" ELSE "Undetermined"

\* Invocations not yet expanded or reported.
Pending == Range(invocations) \cup Range(undetermined_invocations)

\* DummyResolver::resolve_macro_invocation: always Err(Determined).
\* (DummyResolve_undetermined: the resolver never commits)
DummyResolve_undetermined(i, f) == "Undetermined"
DummyResolve(i, f) == "Determined"

\* A name-resolution subsystem behind Resolver::resolve_macro_invocation:
\* while some invocation that i's name waits for is still unexpanded the answer
\* is Err(determined(force)); afterwards the name is known to exist (Ok) or to
\* be absent (Err(Determined)).  A name that an invocation was to define is
\* absent when that invocation was not expanded.
RealResolve(i, f) ==
    IF (deps[i] \cap Pending) # {}
    THEN determined(f)
    ELSE IF i \in defined /\ deps[i] \subseteq expanded THEN "Ok" ELSE "Determined"

resolve_macro_invocation(i, f) ==
    IF resolver = "Dummy" THEN DummyResolve(i, f) ELSE RealResolve(i, f)

\* An invocation leaves the pending set when it resolves Ok or Err(Determined).
StaysPending(r) == r = "Undetermined"

\* One step of a pass: resolve the next invocation of the worklist.
ResolveInvocation ==
    /\ fpc = "run"
    /\ invocations # <<>>
    /\ LET i == Head(invocations)
           r == resolve_macro_invocation(i, force)
       IN  /\ invocations' = Tail(invocations)
           /\ IF StaysPending(r)
              THEN /\ undetermined_invocations' = Append(undetermined_invocations, i)
                   /\ UNCHANGED <<progress, expanded, reported, forced>>
              ELSE /\ progress' = TRUE
                   /\ expanded' = IF r = "Ok" THEN expanded \cup {i} ELSE expanded
                   /\ reported' = IF r = "Ok" THEN reported ELSE reported \cup {i}
                   /\ forced' = IF r # "Ok" /\ force /\ resolve_macro_invocation(i, FALSE) = "Undetermined"
                                THEN forced \cup {i} ELSE forced
                   /\ UNCHANGED undetermined_invocations
    /\ UNCHANGED <<n, deps, defined, resolver, force, passes, fpc>>
    /\ UNCHANGED <<macVars, extVars, argVars, causeVars, sessVars>>

\* The worklist is empty and invocations were put back: the next pass takes
\* them, and is forced when the pass that ends made no progress.
NextPass ==
    /\ fpc = "run"
    /\ invocations = <<>>
    /\ undetermined_invocations # <<>>
    /\ passes < MaxInv + 2
    /\ invocations' = undetermined_invocations
    /\ undetermined_invocations' = <<>>
    /\ force' = ~progress
    /\ progress' = FALSE
    /\ passes' = passes + 1
    /\ UNCHANGED <<n, deps, defined, resolver, expanded, reported, forced, fpc>>
    /\ UNCHANGED <<macVars, extVars, argVars, causeVars, sessVars>>

\* Nothing is pending: the loop ends.
Finish ==
    /\ fpc = "run"
    /\ invocations = <<>>
    /\ undetermined_invocations = <<>>
    /\ fpc' = "done"
    /\ UNCHANGED <<n, deps, defined, resolver, invocations, undetermined_invocations,
                   progress, force, passes, expanded, reported, forced>>
    /\ UNCHANGED <<macVars, extVars, argVars, causeVars, sessVars>>

\* Idle values of the other components.
IdleMac == producer = [impl |-> "none"] /\ query = "none" /\ result = None
IdleExt ==
    /\ ext = [variant |-> "none"] /\ default_edition = "Edition2015"
    /\ kinds = <<>> /\ transparencies = <<>> /\ editions = <<>>
IdleArg == tts = <<>> /\ helper = "idle" /\ ret = None /\ diags = <<>> /\ fatal = FALSE
IdleSession ==
    /\ session = "idle" /\ depth = 0 /\ frames = <<>> /\ sink = <<>>
    /\ producers = <<>> /\ found = 0
IdleCause ==
    expn_info = <<>> /\ mark = 0 /\ ctxt = 0 /\ last_macro = None /\ cause = "idle"
IdleResolve ==
    /\ n = 0 /\ deps = <<>> /\ defined = {} /\ resolver = "Dummy"
    /\ invocations = <<>> /\ undetermined_invocations = <<>>
    /\ progress = FALSE /\ force = FALSE /\ passes = 0
    /\ expanded = {} /\ reported = {} /\ forced = {} /\ fpc = "idle"

\* A session starts with n invocations in textual order; at most one of the
\* names is absent for good.
InitResolve ==
    /\ n \in 1..MaxInv
    /\ deps \in [1..n -> SUBSET (1..n)]
    /\ \A i \in 1..n : i \notin deps[i]
    /\ \E u \in {{}} \cup {{i} : i \in 1..n} : defined = (1..n) \ u
    /\ resolver \in {"Dummy", "Real"}
    /\ invocations = [k \in 1..n |-> k]
    /\ undetermined_invocations = <<>>
    /\ progress = FALSE
    /\ force = FALSE
    /\ passes = 1
    /\ expanded = {}
    /\ reported = {}
    /\ forced = {}
    /\ fpc = "run"
    /\ IdleMac
    /\ IdleExt
    /\ IdleArg
    /\ IdleCause
    /\ IdleSession

NextResolve == ResolveInvocation \/ NextPass \/ Finish

SpecResolve == InitResolve /\ [][NextResolve]_vars

\* ----------------------------------------------------------------------
\*  Properties of the fixed-point protocol
\* ----------------------------------------------------------------------

\* Invocations reachable from i along deps in at most k steps.
RECURSIVE DepsWithin(_, _)
DepsWithin(i, k) ==
    IF k = 0 THEN {}
    ELSE deps[i] \cup UNION {DepsWithin(j, k - 1) : j \in deps[i]}

\* No invocation waits, directly or not, for itself.
NoCycle == \A i \in 1..n : i \notin DepsWithin(i, n)

\* i's name waits for an invocation that is still pending.
WaitsForPending(i) == resolver = "Real" /\ (deps[i] \cap Pending) # {}

\* C1: with no dependency cycle among the n invocations of a session, the
\* pending set is empty after at most n passes: no pass is forced, the pass
\* number never exceeds n, pass k starts with at most n - (k - 1) pending
\* invocations, and the loop ends with nothing pending.
C1_TerminatesWithinNPasses ==
    (fpc # "idle" /\ NoCycle) =>
        /\ passes <= n
        /\ ~force
        /\ Cardinality(Pending) <= n - (passes - 1)
        /\ (fpc = "done" => Pending = {} /\ expanded \cup reported = 1..n)

\* A chain 1 -> 2 -> 3 written in the worst order needs all n passes.
C1_Witness ==
    /\ fpc = "done" /\ resolver = "Real" /\ NoCycle
    /\ n = 3 /\ deps[1] = {2} /\ deps[2] = {3}
    /\ passes = n /\ Pending = {}

\* The sessions of C2: A waits for B, B waits for nothing, both names exist.
TwoInvocations(a, b) ==
    /\ n = 2 /\ resolver = "Real" /\ defined = {1, 2}
    /\ deps[a] = {b} /\ deps[b] = {}

\* C2: A waits for B's expansion and B for nothing.  In either textual order
\* both are expanded, none is reported, and at most 2 passes run: 2 when A
\* comes first, 1 when B comes first.
C2_OrderIndependent ==
    /\ (TwoInvocations(1, 2) \/ TwoInvocations(2, 1)) =>
           /\ passes <= 2
           /\ reported = {}
           /\ ~force
           /\ (fpc = "done" => expanded = {1, 2})
    /\ (TwoInvocations(1, 2) /\ fpc = "done") => passes = 2
    /\ (TwoInvocations(2, 1) /\ fpc = "done") => passes = 1

\* A comes first, is put back in pass 1 and expanded in pass 2.
C2_Witness ==
    TwoInvocations(1, 2) /\ fpc = "done" /\ passes = 2 /\ expanded = {1, 2}

\* C3: a pass that ends without progress is followed by a forced pass, and a
\* pass that made progress by an unforced one; every step of a forced pass
\* reports the invocation it takes and removes it from the pending set, so the
\* loop ends with nothing pending; and an invocation whose name still waits
\* for a pending invocation is reported only in a forced pass.
C3_ForceOnlyWithoutProgress ==
    /\ [][passes' = passes + 1 => (force' <=> ~progress)]_vars
    /\ [][(fpc = "run" /\ force /\ invocations # <<>>) =>
             /\ Head(invocations) \in reported'
             /\ Head(invocations) \notin Pending']_vars
    /\ [][\A i \in reported' \ reported : WaitsForPending(i) => force]_vars
    /\ [](fpc = "done" => Pending = {})
    /\ [](force => undetermined_invocations = <<>>)

\* Two invocations that wait for each other were both force-reported.
C3_Witness ==
    /\ fpc = "done" /\ n = 2 /\ deps[1] = {2} /\ deps[2] = {1}
    /\ forced # {} /\ reported = {1, 2} /\ Pending = {}

\* ======================================================================
\*  MacResult protocol: trait defaults, MacEager, DummyResult
\* ======================================================================

Spans == 1..MaxSpan

\* The eight make_* methods of MacResult.
Shapes == {"expr", "pat", "items", "impl_items", "trait_items", "foreign_items",
           "stmts", "ty"}
ItemShapes == {"items", "impl_items", "trait_items", "foreign_items"}

\* ast::Expr: "Lit" is ExprKind::Lit, "Path" any other well-formed expression,
\* "Err" is ExprKind::Err and "Tup" is ExprKind::Tup(Vec::new()).
Exprs == [node : {"Lit", "Path", "Err", "Tup"}, span : Spans]
\* ast::Pat as an expander supplies it; PatKind::Lit carries its expression.
Pats == [node : {"Wild", "Ident"}, span : Spans, expr : {None}]
\* ast::Ty; "Tup" is TyKind::Tup(Vec::new()).
Tys == [node : {"Path", "Tup"}, span : Spans]
\* ast::Stmt as an expander supplies it.
Stmts == {[node |-> "Semi", span |-> s, expr |-> [node |-> "Path", span |-> s]] : s \in Spans}
StmtLists == {<<>>} \cup {<<a>> : a \in Stmts} \cup {<<a, b>> : a \in Stmts, b \in Stmts}
\* The item lists (SmallVec) of each of the four item shapes.
ItemLists(shape) == {<<>>} \cup {<<[node |-> shape, span |-> s]>> : s \in Spans}

SomeOf(S) == {Some(x) : x \in S}

\* make_stmts_default!: the expression query's result as one expression
\* statement with the expression's span.
\* (make_stmts_default_semi: StmtKind::Semi in place of StmtKind::Expr)
make_stmts_default_semi(e) ==
    IF IsSome(e)
    THEN Some(<<[node |-> "Semi", span |-> Unwrap(e).span, expr |-> Unwrap(e)]>>)
    ELSE None
make_stmts_default(e) ==
    IF IsSome(e)
    THEN Some(<<[node |-> "Expr", span |-> Unwrap(e).span, expr |-> Unwrap(e)]>>)
    ELSE None

\* --- trait MacResult: the default methods.  The implementor of the model
\* overrides make_expr alone (overrides = TRUE) or nothing.
MacResult_make_expr(p) == None
MacResult_make_items(p) == None
MacResult_make_impl_items(p) == None
MacResult_make_trait_items(p) == None
MacResult_make_foreign_items(p) == None
MacResult_make_pat(p) == None
\* (MacResult_make_ty_unit: a default that answers with a unit type)
MacResult_make_ty_unit(p) == Some([node |-> "Tup", span |-> 1])
MacResult_make_ty(p) == None
Impl_make_expr(p) == IF p.overrides THEN p.expr ELSE MacResult_make_expr(p)
MacResult_make_stmts(p) == make_stmts_default(Impl_make_expr(p))

\* --- impl MacResult for MacEager
MacEager_make_expr(p) == p.expr
MacEager_make_items(p) == p.items
MacEager_make_impl_items(p) == p.impl_items
MacEager_make_trait_items(p) == p.trait_items
MacEager_make_foreign_items(p) == p.foreign_items
\* (MacEager_make_stmts_noLenCheck: a supplied list is returned even when empty)
MacEager_make_stmts_noLenCheck(p) ==
    IF IsSome(p.stmts) THEN p.stmts ELSE make_stmts_default(MacEager_make_expr(p))
MacEager_make_stmts(p) ==
    IF (IF IsSome(p.stmts) THEN Len(Unwrap(p.stmts)) ELSE 0) = 0
    THEN make_stmts_default(MacEager_make_expr(p))
    ELSE p.stmts
\* (MacEager_make_pat_anyExpr: the ExprKind::Lit test left out)
MacEager_make_pat_anyExpr(p) ==
    IF IsSome(p.pat) THEN p.pat
    ELSE IF IsSome(p.expr)
         THEN Some([node |-> "Lit", span |-> Unwrap(p.expr).span, expr |-> p.expr])
         ELSE None
MacEager_make_pat(p) ==
    IF IsSome(p.pat) THEN p.pat
    ELSE IF IsSome(p.expr) /\ Unwrap(p.expr).node = "Lit"
         THEN Some([node |-> "Lit", span |-> Unwrap(p.expr).span, expr |-> p.expr])
         ELSE None
MacEager_make_ty(p) == p.ty

\* --- DummyResult
DummyResult_any(span) ==
    [impl |-> "DummyResult", expr_only |-> FALSE, is_error |-> TRUE, span |-> span]
DummyResult_any_valid(span) ==
    [impl |-> "DummyResult", expr_only |-> FALSE, is_error |-> FALSE, span |-> span]
DummyResult_expr(span) ==
    [impl |-> "DummyResult", expr_only |-> TRUE, is_error |-> TRUE, span |-> span]
\* (DummyResult_raw_expr_valid, DummyResult_raw_ty_err: is_error ignored)
DummyResult_raw_expr_valid(sp, is_error) == [node |-> "Tup", span |-> sp]
DummyResult_raw_expr(sp, is_error) ==
    [node |-> IF is_error THEN "Err" ELSE "Tup", span |-> sp]
DummyResult_raw_pat(sp) == [node |-> "Wild", span |-> sp, expr |-> None]
DummyResult_raw_ty_err(sp, is_error) == [node |-> "Err", span |-> sp]
DummyResult_raw_ty(sp, is_error) ==
    [node |-> IF is_error THEN "Err" ELSE "Tup", span |-> sp]

DummyResult_make_expr(p) == Some(DummyResult_raw_expr(p.span, p.is_error))
DummyResult_make_pat(p) == Some(DummyResult_raw_pat(p.span))
DummyResult_make_items(p) == IF p.expr_only THEN None ELSE Some(<<>>)
DummyResult_make_impl_items(p) == IF p.expr_only THEN None ELSE Some(<<>>)
DummyResult_make_trait_items(p) == IF p.expr_only THEN None ELSE Some(<<>>)
DummyResult_make_foreign_items(p) == IF p.expr_only THEN None ELSE Some(<<>>)
DummyResult_make_stmts(p) ==
    Some(<<[node |-> "Expr", span |-> p.span,
            expr |-> DummyResult_raw_expr(p.span, p.is_error)]>>)
DummyResult_make_ty(p) == Some(DummyResult_raw_ty(p.span, p.is_error))

\* --- the producers an expander can return
\* MacEager's fields are public: any combination of at most MaxFields values.
MacEagers ==
    UNION {
      [impl : {"MacEager"},
       expr : IF "expr" \in F THEN SomeOf(Exprs) ELSE {None},
       pat : IF "pat" \in F THEN SomeOf(Pats) ELSE {None},
       items : IF "items" \in F THEN SomeOf(ItemLists("items")) ELSE {None},
       impl_items : IF "impl_items" \in F THEN SomeOf(ItemLists("impl_items")) ELSE {None},
       trait_items : IF "trait_items" \in F THEN SomeOf(ItemLists("trait_items")) ELSE {None},
       foreign_items : IF "foreign_items" \in F
                       THEN SomeOf(ItemLists("foreign_items")) ELSE {None},
       stmts : IF "stmts" \in F THEN SomeOf(StmtLists) ELSE {None},
       ty : IF "ty" \in F THEN SomeOf(Tys) ELSE {None}]
      : F \in {G \in SUBSET Shapes : Cardinality(G) <= MaxFields} }
\* DummyResult's fields are private: only the three constructors build one.
DummyResults ==
    {DummyResult_any(s) : s \in Spans} \cup {DummyResult_any_valid(s) : s \in Spans}
        \cup {DummyResult_expr(s) : s \in Spans}
\* An implementor that relies on the trait's defaults.
DefaultImpls ==
    [impl : {"Default"}, overrides : {TRUE}, expr : SomeOf(Exprs) \cup {None}]
        \cup [impl : {"Default"}, overrides : {FALSE}, expr : {None}]

\* Dynamic dispatch of Box<dyn MacResult>.
Dispatch(p, shape) ==
    IF p.impl = "MacEager" THEN
        CASE shape = "expr" -> MacEager_make_expr(p)
          [] shape = "pat" -> MacEager_make_pat(p)
          [] shape = "items" -> MacEager_make_items(p)
          [] shape = "impl_items" -> MacEager_make_impl_items(p)
          [] shape = "trait_items" -> MacEager_make_trait_items(p)
          [] shape = "foreign_items" -> MacEager_make_foreign_items(p)
          [] shape = "stmts" -> MacEager_make_stmts(p)
          [] shape = "ty" -> MacEager_make_ty(p)
    ELSE IF p.impl = "DummyResult" THEN
        CASE shape = "expr" -> DummyResult_make_expr(p)
          [] shape = "pat" -> DummyResult_make_pat(p)
          [] shape = "items" -> DummyResult_make_items(p)
          [] shape = "impl_items" -> DummyResult_make_impl_items(p)
          [] shape = "trait_items" -> DummyResult_make_trait_items(p)
          [] shape = "foreign_items" -> DummyResult_make_foreign_items(p)
          [] shape = "stmts" -> DummyResult_make_stmts(p)
          [] shape = "ty" -> DummyResult_make_ty(p)
    ELSE
        CASE shape = "expr" -> Impl_make_expr(p)
          [] shape = "pat" -> MacResult_make_pat(p)
          [] shape = "items" -> MacResult_make_items(p)
          [] shape = "impl_items" -> MacResult_make_impl_items(p)
          [] shape = "trait_items" -> MacResult_make_trait_items(p)
          [] shape = "foreign_items" -> MacResult_make_foreign_items(p)
          [] shape = "stmts" -> MacResult_make_stmts(p)
          [] shape = "ty" -> MacResult_make_ty(p)

\* A call of one make_* method; it takes self by value, so a producer answers
\* one query.
Make(shape) ==
    /\ producer.impl # "none"
    /\ query = "none"
    /\ query' = shape
    /\ result' = Dispatch(producer, shape)
    /\ UNCHANGED producer
    /\ UNCHANGED <<resolveVars, extVars, argVars, causeVars, sessVars>>

make_expr == Make("expr")
make_pat == Make("pat")
make_items == Make("items")
make_impl_items == Make("impl_items")
make_trait_items == Make("trait_items")
make_foreign_items == Make("foreign_items")
make_stmts == Make("stmts")
make_ty == Make("ty")

InitMacResult ==
    /\ producer \in MacEagers \cup DummyResults \cup DefaultImpls
    /\ query = "none"
    /\ result = None
    /\ IdleResolve
    /\ IdleExt
    /\ IdleArg
    /\ IdleCause
    /\ IdleSession

NextMacResult ==
    \/ make_expr \/ make_pat \/ make_items \/ make_impl_items \/ make_trait_items
    \/ make_foreign_items \/ make_stmts \/ make_ty

SpecMacResult == InitMacResult /\ [][NextMacResult]_vars

\* ----------------------------------------------------------------------
\*  Properties of the MacResult protocol
\* ----------------------------------------------------------------------

\* The two fallbacks of MacEager: statements from the expression, a literal
\* pattern from a literal expression.
Fallback(p, shape) ==
    \/ shape = "stmts" /\ IsSome(p.expr)
    \/ shape = "pat" /\ IsSome(p.expr) /\ Unwrap(p.expr).node = "Lit"

HoldsOnlyExpr(p) ==
    \/ p.impl = "Default" /\ p.overrides /\ IsSome(p.expr)
    \/ p.impl = "MacEager" /\ IsSome(p.expr) /\ \A f \in Shapes \ {"expr"} : p[f] = None

\* The producer holds neither statements nor an expression.
HoldsNeither(p) ==
    \/ p.impl = "Default" /\ (~p.overrides \/ p.expr = None)
    \/ p.impl = "MacEager" /\ p.expr = None /\ (p.stmts = None \/ p.stmts = Some(<<>>))

\* C5: make_stmts on a producer that holds only an expression e returns
\* exactly one statement, StmtKind::Expr(e) with e's span; on a producer with
\* neither statements nor an expression it returns None.
C5_StmtsFromExpr ==
    query = "stmts" =>
        /\ HoldsOnlyExpr(producer) =>
               /\ IsSome(result)
               /\ Len(Unwrap(result)) = 1
               /\ Unwrap(result)[1] = [node |-> "Expr",
                                       span |-> Unwrap(producer.expr).span,
                                       expr |-> Unwrap(producer.expr)]
        /\ HoldsNeither(producer) => result = None

\* A MacEager with an expression alone answered the statement query.
C5_Witness ==
    /\ query = "stmts" /\ producer.impl = "MacEager" /\ HoldsOnlyExpr(producer)
    /\ IsSome(result) /\ Unwrap(result)[1].node = "Expr"

\* C6: make_pat on a MacEager returns the supplied pattern when there is one,
\* also with an expression present; else a PatKind::Lit pattern around the
\* expression, with its span, when the expression is a literal; else None.
C6_PatQuery ==
    (producer.impl = "MacEager" /\ query = "pat") =>
        result = IF producer.pat # None THEN producer.pat
                 ELSE IF producer.expr # None /\ Unwrap(producer.expr).node = "Lit"
                      THEN Some([node |-> "Lit",
                                 span |-> Unwrap(producer.expr).span,
                                 expr |-> producer.expr])
                      ELSE None

\* A literal expression alone gave a literal pattern.
C6_Witness ==
    /\ producer.impl = "MacEager" /\ query = "pat"
    /\ producer.pat = None /\ IsSome(producer.expr)
    /\ IsSome(result) /\ Unwrap(result).node = "Lit"
    /\ Unwrap(result).span = Unwrap(producer.expr).span

\* The fragments of a query's answer are all error nodes.
ErrorMarked(shape, r) ==
    IF shape \in {"expr", "pat", "ty"} THEN Unwrap(r).node = "Err"
    ELSE IF shape = "stmts"
    THEN \A k \in 1..Len(Unwrap(r)) : Unwrap(r)[k].expr.node = "Err"
    ELSE \A k \in 1..Len(Unwrap(r)) : Unwrap(r)[k].node = "Err"

IsAny(p) == p.impl = "DummyResult" /\ ~p.expr_only /\ p.is_error
IsAnyValid(p) == p.impl = "DummyResult" /\ ~p.expr_only /\ ~p.is_error
IsExprOnly(p) == p.impl = "DummyResult" /\ p.expr_only

\* C7 as claimed: every fragment a DummyResult::any returns is an error node,
\* the pattern included.
C7_AllErrorMarked ==
    (IsAny(producer) /\ query # "none" /\ IsSome(result)) => ErrorMarked(query, result)

\* C7, amended: a DummyResult::any answers every query; its expression, its
\* type and its statement's expression are error nodes, its pattern is a
\* wildcard (not an error node) and its four item lists are empty.
C7_ErroneousFlavor ==
    (IsAny(producer) /\ query # "none") =>
        /\ IsSome(result)
        /\ query \in {"expr", "ty", "stmts"} => ErrorMarked(query, result)
        /\ query = "stmts" => Len(Unwrap(result)) = 1
        /\ query = "pat" => Unwrap(result).node = "Wild"
        /\ query \in ItemShapes => result = Some(<<>>)

\* A DummyResult::any answered the statement query with an error expression.
C7_Witness ==
    /\ IsAny(producer) /\ query = "stmts"
    /\ IsSome(result) /\ Unwrap(result)[1].expr.node = "Err"

\* C8: a DummyResult::any_valid is never absent; its four item lists are
\* empty, its statement list is one statement around the empty tuple, its
\* expression is the empty tuple, its type the unit type, its pattern a
\* wildcard, and none of them is an error node.
C8_ValidFlavor ==
    (IsAnyValid(producer) /\ query # "none") =>
        /\ IsSome(result)
        /\ query \in ItemShapes => result = Some(<<>>)
        /\ query = "stmts" =>
               result = Some(<<[node |-> "Expr", span |-> producer.span,
                                expr |-> [node |-> "Tup", span |-> producer.span]]>>)
        /\ query = "expr" => Unwrap(result).node = "Tup"
        /\ query = "ty" => Unwrap(result).node = "Tup"
        /\ query = "pat" => Unwrap(result).node = "Wild"
        /\ query \in {"expr", "pat", "ty", "stmts"} => ~ErrorMarked(query, result)

\* A DummyResult::any_valid answered the type query with the unit type.
C8_Witness ==
    /\ IsAnyValid(producer) /\ query = "ty"
    /\ IsSome(result) /\ Unwrap(result).node = "Tup"

\* C9 as claimed: a DummyResult::expr answers the expression query with an
\* error expression and every other query with None.
C9_ExprOnly ==
    (IsExprOnly(producer) /\ query # "none") =>
        IF query = "expr"
        THEN IsSome(result) /\ Unwrap(result).node = "Err"
        ELSE result = None

\* ======================================================================
\*  SyntaxExtension
\* ======================================================================

\* enum MacroKind
MacroKind == {"Bang", "Attr", "Derive", "ProcMacroStub"}

Editions == {"Edition2015", "Edition2018"}
\* Option<Lrc<[Symbol]>>
Whitelists == {None, Some("feature")}
\* Option<(ast::NodeId, Span)>
DefInfos == {None, Some(<<1, 1>>)}

\* enum SyntaxExtension: one record set per variant (expanders left out).
SyntaxExtensions ==
    [variant : {"NonMacroAttr"}, mark_used : BOOLEAN]
    \cup [variant : {"MultiDecorator", "MultiModifier", "BuiltinDerive"}]
    \cup [variant : {"ProcMacro"}, allow_internal_unstable : Whitelists, edition : Editions]
    \cup [variant : {"AttrProcMacro", "ProcMacroDerive"}, edition : Editions]
    \cup [variant : {"NormalTT"}, def_info : DefInfos,
          allow_internal_unstable : Whitelists, allow_internal_unsafe : BOOLEAN,
          local_inner_macros : BOOLEAN, edition : Editions]
    \cup [variant : {"IdentTT"}, allow_internal_unstable : Whitelists]
    \cup [variant : {"DeclMacro"}, def_info : DefInfos, is_transparent : BOOLEAN,
          edition : Editions]

\* SyntaxExtension::kind
\* (kind_attrProcAsBang: AttrProcMacro grouped with the bang macros)
kind_attrProcAsBang(e) ==
    CASE e.variant \in {"DeclMacro", "NormalTT", "IdentTT", "ProcMacro", "AttrProcMacro"} -> "Bang"
      [] e.variant \in {"NonMacroAttr", "MultiDecorator", "MultiModifier"} -> "Attr"
      [] e.variant \in {"ProcMacroDerive", "BuiltinDerive"} -> "Derive"
kind(e) ==
    CASE e.variant \in {"DeclMacro", "NormalTT", "IdentTT", "ProcMacro"} -> "Bang"
      [] e.variant \in {"NonMacroAttr", "MultiDecorator", "MultiModifier", "AttrProcMacro"} -> "Attr"
      [] e.variant \in {"ProcMacroDerive", "BuiltinDerive"} -> "Derive"

\* A call of ext.kind(); the descriptor is borrowed and stays as it is.
call_kind ==
    /\ ext.variant # "none"
    /\ Len(kinds) < MaxCalls
    /\ kinds' = Append(kinds, kind(ext))
    /\ UNCHANGED <<ext, default_edition, transparencies, editions>>
    /\ UNCHANGED <<resolveVars, macVars, argVars, causeVars, sessVars>>

\* hygiene::Transparency
Transparency == {"Transparent", "SemiTransparent", "Opaque"}

\* SyntaxExtension::default_transparency
\* (default_transparency_declSemi: the DeclMacro { is_transparent: false } arm lost)
default_transparency_declSemi(e) ==
    IF e.variant \in {"ProcMacro", "AttrProcMacro", "ProcMacroDerive"} THEN "Opaque"
    ELSE IF e.variant = "DeclMacro" /\ e.is_transparent THEN "Transparent"
    ELSE "SemiTransparent"
default_transparency(e) ==
    IF \/ e.variant \in {"ProcMacro", "AttrProcMacro", "ProcMacroDerive"}
       \/ (e.variant = "DeclMacro" /\ e.is_transparent = FALSE)
    THEN "Opaque"
    ELSE IF e.variant = "DeclMacro" /\ e.is_transparent = TRUE THEN "Transparent"
    ELSE "SemiTransparent"

\* A call of ext.default_transparency().
call_default_transparency ==
    /\ ext.variant # "none"
    /\ Len(transparencies) < MaxCalls
    /\ transparencies' = Append(transparencies, default_transparency(ext))
    /\ UNCHANGED <<ext, default_edition, kinds, editions>>
    /\ UNCHANGED <<resolveVars, macVars, argVars, causeVars, sessVars>>

\* SyntaxExtension::edition
\* (edition_normalTTDefault: NormalTT counted among the legacy forms)
edition_normalTTDefault(e) ==
    CASE e.variant \in {"DeclMacro", "ProcMacro", "AttrProcMacro", "ProcMacroDerive"}
             -> e.edition
      [] e.variant \in {"NormalTT", "NonMacroAttr", "IdentTT", "MultiDecorator",
                        "MultiModifier", "BuiltinDerive"} -> default_edition
edition(e) ==
    CASE e.variant \in {"NormalTT", "DeclMacro", "ProcMacro", "AttrProcMacro",
                        "ProcMacroDerive"} -> e.edition
      [] e.variant \in {"NonMacroAttr", "IdentTT", "MultiDecorator", "MultiModifier",
                        "BuiltinDerive"} -> default_edition

\* A call of ext.edition().
call_edition ==
    /\ ext.variant # "none"
    /\ Len(editions) < MaxCalls
    /\ editions' = Append(editions, edition(ext))
    /\ UNCHANGED <<ext, default_edition, kinds, transparencies>>
    /\ UNCHANGED <<resolveVars, macVars, argVars, causeVars, sessVars>>

InitSyntaxExtension ==
    /\ ext \in SyntaxExtensions
    /\ default_edition \in Editions
    /\ kinds = <<>>
    /\ transparencies = <<>>
    /\ editions = <<>>
    /\ IdleResolve
    /\ IdleMac
    /\ IdleArg
    /\ IdleCause
    /\ IdleSession

NextSyntaxExtension == call_kind \/ call_default_transparency \/ call_edition

SpecSyntaxExtension == InitSyntaxExtension /\ [][NextSyntaxExtension]_vars

\* ----------------------------------------------------------------------
\*  Properties of SyntaxExtension
\* ----------------------------------------------------------------------

\* C10: every call of kind() on a descriptor returns the kind of its variant:
\* Bang for DeclMacro, NormalTT, IdentTT and ProcMacro, Attr for NonMacroAttr,
\* MultiDecorator, MultiModifier and AttrProcMacro, Derive for ProcMacroDerive
\* and BuiltinDerive; the fields of the variant do not matter, repeated calls
\* agree, and ProcMacroStub is never returned.
C10_KindOfVariant ==
    ext.variant # "none" =>
        \A k \in 1..Len(kinds) :
            /\ ext.variant \in {"DeclMacro", "NormalTT", "IdentTT", "ProcMacro"}
                   => kinds[k] = "Bang"
            /\ ext.variant \in {"NonMacroAttr", "MultiDecorator", "MultiModifier",
                                "AttrProcMacro"} => kinds[k] = "Attr"
            /\ ext.variant \in {"ProcMacroDerive", "BuiltinDerive"} => kinds[k] = "Derive"
            /\ kinds[k] \in MacroKind \ {"ProcMacroStub"}
            /\ kinds[k] = kinds[1]

\* kind() was called twice on an attribute procedural macro.
C10_Witness ==
    /\ ext.variant = "AttrProcMacro"
    /\ Len(kinds) = 2 /\ kinds[1] = "Attr" /\ kinds[2] = "Attr"

\* C11: every call of default_transparency() returns Opaque for ProcMacro,
\* AttrProcMacro, ProcMacroDerive and for DeclMacro with is_transparent =
\* false, Transparent for DeclMacro with is_transparent = true, and
\* SemiTransparent for NonMacroAttr, MultiDecorator, MultiModifier, NormalTT,
\* IdentTT and BuiltinDerive; so Opaque and Transparent are returned for
\* exactly those descriptors.
C11_DefaultTransparency ==
    ext.variant # "none" =>
        \A k \in 1..Len(transparencies) :
            /\ transparencies[k] = "Opaque" <=>
                   \/ ext.variant \in {"ProcMacro", "AttrProcMacro", "ProcMacroDerive"}
                   \/ (ext.variant = "DeclMacro" /\ ~ext.is_transparent)
            /\ transparencies[k] = "Transparent" <=>
                   (ext.variant = "DeclMacro" /\ ext.is_transparent)
            /\ transparencies[k] = "SemiTransparent" <=>
                   ext.variant \in {"NonMacroAttr", "MultiDecorator", "MultiModifier",
                                    "NormalTT", "IdentTT", "BuiltinDerive"}

\* default_transparency() was called on a declarative macro that is not
\* transparent.
C11_Witness ==
    /\ ext.variant = "DeclMacro" /\ ~ext.is_transparent
    /\ Len(transparencies) >= 1 /\ transparencies[1] = "Opaque"

\* C12: every call of edition() returns the edition stored in the descriptor
\* for NormalTT, DeclMacro, ProcMacro, AttrProcMacro and ProcMacroDerive, and
\* the process-wide default edition for NonMacroAttr, IdentTT, MultiDecorator,
\* MultiModifier and BuiltinDerive.
C12_Edition ==
    ext.variant # "none" =>
        \A k \in 1..Len(editions) :
            /\ ext.variant \in {"NormalTT", "DeclMacro", "ProcMacro", "AttrProcMacro",
                                "ProcMacroDerive"} => editions[k] = ext.edition
            /\ ext.variant \in {"NonMacroAttr", "IdentTT", "MultiDecorator",
                                "MultiModifier", "BuiltinDerive"}
                   => editions[k] = default_edition

\* edition() was called on a NormalTT whose edition is not the default one.
C12_Witness ==
    /\ ext.variant = "NormalTT" /\ ext.edition # default_edition
    /\ Len(editions) >= 1 /\ editions[1] = ext.edition

\* C20: make_stmts on a MacEager whose statement list was supplied but is
\* empty answers as if none was supplied: one expression statement around the
\* expression when there is one, None when there is none, never Some of an
\* empty list; a supplied list that is not empty is returned as it is, also
\* with an expression present.
C20_EmptyStmtsFallBack ==
    (producer.impl = "MacEager" /\ query = "stmts") =>
        /\ producer.stmts = Some(<<>>) =>
               /\ result # Some(<<>>)
               /\ IsSome(producer.expr) =>
                      result = Some(<<[node |-> "Expr",
                                       span |-> Unwrap(producer.expr).span,
                                       expr |-> Unwrap(producer.expr)]>>)
               /\ producer.expr = None => result = None
        /\ (IsSome(producer.stmts) /\ Len(Unwrap(producer.stmts)) > 0) =>
               result = producer.stmts

\* An empty supplied list next to an expression gave the expression statement.
C20_Witness ==
    /\ producer.impl = "MacEager" /\ query = "stmts"
    /\ producer.stmts = Some(<<>>) /\ IsSome(producer.expr)
    /\ IsSome(result) /\ Len(Unwrap(result)) = 1 /\ Unwrap(result)[1].node = "Expr"

\* ======================================================================
\*  Argument-extraction helpers
\* ======================================================================

\* The raw input: each element stands for the token trees of one operand, or
\* for a `,`.  "Str" and "Int" are literals, "LitErr" a literal that did not
\* lex (LitKind::Err), "NtErr" an interpolated expression that is already
\* ExprKind::Err, "MacStr" a macro call such as concat!("a", "b") that expands
\* to a string literal, "MacErr" a macro call whose expansion fails, "Path" any
\* other expression.
Tok(k, v) == [tok |-> k, val |-> v]
Tokens ==
    {Tok("Str", "a"), Tok("Str", "b"), Tok("Int", "1"), Tok("LitErr", ""),
     Tok("NtErr", ""), Tok("MacStr", "ab"), Tok("MacErr", ""), Tok("Path", "x"),
     Tok("Comma", ",")}
TokenStreams == UNION {[1..k -> Tokens] : k \in 0..MaxTts}

\* A diagnostic handed to the handler.
Diag(level, msg) == [level |-> level, msg |-> msg]

\* --- the parser of cx.new_parser_from_tts(tts), at position pos
\* p.token == token::Eof
AtEof(ts, pos) == pos > Len(ts)
\* p.token == token::Comma, which p.eat(&token::Comma) tests
AtComma(ts, pos) == ~AtEof(ts, pos) /\ ts[pos].tok = "Comma"
\* The expression an operand parses to; its span is its position.
ExprOf(t, sp) ==
    CASE t.tok \in {"Str", "Int"} -> [node |-> "Lit", lit |-> t.tok, val |-> t.val, span |-> sp]
      [] t.tok = "LitErr" -> [node |-> "Lit", lit |-> "Err", val |-> "", span |-> sp]
      [] t.tok = "NtErr" -> [node |-> "Err", lit |-> "", val |-> "", span |-> sp]
      [] t.tok \in {"MacStr", "MacErr"} ->
             [node |-> "Mac", lit |-> t.tok, val |-> t.val, span |-> sp]
      [] t.tok = "Path" -> [node |-> "Path", lit |-> "", val |-> t.val, span |-> sp]
\* p.parse_expr(): Some(e) is Ok(e), None is Err(diagnostic): neither the end
\* of the input nor a `,` starts an expression.
parse_expr(ts, pos) ==
    IF AtEof(ts, pos) \/ AtComma(ts, pos) THEN None ELSE Some(ExprOf(ts[pos], pos))

\* --- cx.expander().visit_expr(&mut expr): a macro call becomes what it
\* expands to, a failing one ExprKind::Err with the macro's own diagnostic.
visit_expr(e) ==
    IF e.node # "Mac" THEN e
    ELSE IF e.lit = "MacStr"
    THEN [node |-> "Lit", lit |-> "Str", val |-> e.val, span |-> e.span]
    ELSE [node |-> "Err", lit |-> "", val |-> "", span |-> e.span]
visit_expr_diags(e) ==
    IF e.node = "Mac" /\ e.lit = "MacErr"
    THEN <<Diag("error", "macro expansion failed")>> ELSE <<>>

\* What a call leaves behind: the value returned, the diagnostics emitted,
\* and whether it unwound with FatalError instead of returning.
Outcome(r, ds, f) == [ret |-> r, diags |-> ds, fatal |-> f]

\* panictry!(p.parse_expr()) on Err: the diagnostic is emitted and FatalError
\* is raised.
panictry_raise(ds) == Outcome(None, Append(ds, Diag("fatal", "expected expression")), TRUE)

\* What reporting a diagnostic does: the handler's list afterwards, and
\* whether FatalError is raised.
\* cx.span_err(sp, msg)
\* (span_err_raise: the error unwinds as a fatal one does)
span_err_raise(ds, msg) == [diags |-> Append(ds, Diag("error", msg)), raise |-> TRUE]
span_err(ds, msg) == [diags |-> Append(ds, Diag("error", msg)), raise |-> FALSE]
\* cx.span_fatal(sp, msg): span_diagnostic.span_fatal(sp, msg).raise()
\* (span_fatal_noRaise: reported, but expansion goes on)
span_fatal_noRaise(ds, msg) == [diags |-> Append(ds, Diag("fatal", msg)), raise |-> FALSE]
span_fatal(ds, msg) == [diags |-> Append(ds, Diag("fatal", msg)), raise |-> TRUE]

\* expr_to_spanned_string: res is Some(string) for Ok, else err is the
\* Option<DiagnosticBuilder> of Err.
\* (expr_to_spanned_string_reportErr: ExprKind::Err reported once more)
expr_to_spanned_string_reportErr(expr, err_msg) ==
    LET e == visit_expr(expr)
    IN  IF e.node = "Lit" /\ e.lit = "Str" THEN [res |-> Some(e.val), err |-> None]
        ELSE IF e.node = "Lit" /\ e.lit = "Err" THEN [res |-> None, err |-> None]
        ELSE [res |-> None, err |-> Some(Diag("error", err_msg))]
expr_to_spanned_string(expr, err_msg) ==
    LET e == visit_expr(expr)
    IN  IF e.node = "Lit"
        THEN IF e.lit = "Str" THEN [res |-> Some(e.val), err |-> None]
             ELSE IF e.lit = "Err" THEN [res |-> None, err |-> None]
             ELSE [res |-> None, err |-> Some(Diag("error", err_msg))]
        ELSE IF e.node = "Err" THEN [res |-> None, err |-> None]
        ELSE [res |-> None, err |-> Some(Diag("error", err_msg))]

\* expr_to_string: the diagnostic of Err, if any, is emitted; Ok gives Some.
expr_to_string(ds, expr, err_msg) ==
    LET r == expr_to_spanned_string(expr, err_msg)
        ds1 == ds \o visit_expr_diags(expr)
    IN  Outcome(r.res, IF IsSome(r.err) THEN Append(ds1, Unwrap(r.err)) ELSE ds1, FALSE)

\* get_single_str_from_tts
get_single_str_from_tts(ts) ==
    IF AtEof(ts, 1)
    THEN Outcome(None, span_err(<<>>, "takes 1 argument").diags, FALSE)
    ELSE IF parse_expr(ts, 1) = None THEN panictry_raise(<<>>)
    ELSE LET e == Unwrap(parse_expr(ts, 1))
             pos == IF AtComma(ts, 2) THEN 3 ELSE 2
             ds == IF ~AtEof(ts, pos) THEN span_err(<<>>, "takes 1 argument").diags ELSE <<>>
         IN  expr_to_string(ds, e, "argument must be a string literal")

\* get_exprs_from_tts: the loop from position pos with es collected so far.
RECURSIVE exprs_loop(_, _, _, _)
exprs_loop(ts, pos, es, ds) ==
    IF AtEof(ts, pos) THEN Outcome(Some(es), ds, FALSE)
    ELSE IF parse_expr(ts, pos) = None THEN panictry_raise(ds)
    ELSE LET e == Unwrap(parse_expr(ts, pos))
             es1 == Append(es, visit_expr(e))
             ds1 == ds \o visit_expr_diags(e)
         IN  IF AtComma(ts, pos + 1) THEN exprs_loop(ts, pos + 2, es1, ds1)
             ELSE IF ~AtEof(ts, pos + 1)
             THEN Outcome(None, span_err(ds1, "expected token: ,").diags, FALSE)
             ELSE exprs_loop(ts, pos + 1, es1, ds1)
get_exprs_from_tts(ts) == exprs_loop(ts, 1, <<>>, <<>>)

\* A call of a helper on the input.
Call(name, out) ==
    /\ helper = "none"
    /\ helper' = name
    /\ ret' = out.ret
    /\ diags' = out.diags
    /\ fatal' = out.fatal
    /\ UNCHANGED tts
    /\ UNCHANGED <<resolveVars, macVars, extVars, causeVars, sessVars>>

call_get_single_str_from_tts ==
    Call("get_single_str_from_tts", get_single_str_from_tts(tts))
call_get_exprs_from_tts ==
    Call("get_exprs_from_tts", get_exprs_from_tts(tts))
\* expr_to_string on the expression an input of one operand holds.
call_expr_to_string ==
    /\ Len(tts) = 1
    /\ parse_expr(tts, 1) # None
    /\ Call("expr_to_string",
            expr_to_string(<<>>, Unwrap(parse_expr(tts, 1)), "not a string literal"))

InitArg ==
    /\ tts \in TokenStreams
    /\ helper = "none"
    /\ ret = None
    /\ diags = <<>>
    /\ fatal = FALSE
    /\ IdleResolve
    /\ IdleMac
    /\ IdleExt
    /\ IdleCause
    /\ IdleSession

NextArg == call_get_single_str_from_tts \/ call_get_exprs_from_tts \/ call_expr_to_string

SpecArg == InitArg /\ [][NextArg]_vars

\* The diagnostic expr_to_string itself emits.
NotAString == Diag("error", "not a string literal")
Emitted(d) == \E i \in 1..Len(diags) : diags[i] = d
ErrorEmitted == \E i \in 1..Len(diags) : diags[i].level = "error"

\* C17: expr_to_string on an input that already carries an error marker (an
\* error expression or an error literal) emits no diagnostic and returns
\* absent; it emits its diagnostic exactly when the fully expanded expression
\* is a non-error expression that is not a string literal; a string literal,
\* written or expanded to, is returned with no diagnostic.
C17_ErrorInputStaysQuiet ==
    helper = "expr_to_string" =>
        LET t == tts[1]
        IN  /\ t.tok \in {"NtErr", "LitErr"} => (diags = <<>> /\ ret = None)
            /\ t.tok \in {"Str", "MacStr"} => (diags = <<>> /\ ret = Some(t.val))
            /\ Emitted(NotAString) <=> t.tok \in {"Int", "Path"}
            /\ t.tok \notin {"Str", "MacStr"} => ret = None
            /\ ~fatal
C17_Witness ==
    /\ helper = "expr_to_string"
    /\ tts[1].tok = "NtErr"
    /\ ret = None
    /\ diags = <<>>

\* The input is one operand that reduces to a string literal, optionally
\* followed by one trailing `,`.
OneStringArgument(ts) ==
    /\ Len(ts) \in {1, 2}
    /\ ts[1].tok \in {"Str", "MacStr"}
    /\ Len(ts) = 2 => ts[2].tok = "Comma"

\* C13: get_single_str_from_tts returns a value only when the input is one
\* expression reducing to a string literal, optionally followed by one
\* trailing separator; on every other shape it emits a non-fatal diagnostic
\* (none is due for an operand that already carries an error marker) and
\* returns absent; it never raises a fatal error.
C13_SingleStrOrAbsent ==
    helper = "get_single_str_from_tts" =>
        /\ ~fatal
        /\ IsSome(ret) => OneStringArgument(tts)
        /\ ~OneStringArgument(tts) =>
               /\ ret = None
               /\ ErrorEmitted \/ (Len(tts) \in {1, 2} /\ tts[1].tok \in {"NtErr", "LitErr"})

\* Operands and `,` alternate, starting with an operand; a trailing `,` is
\* allowed.
SeparatedList(ts) ==
    \A i \in 1..Len(ts) : (ts[i].tok = "Comma") <=> (i % 2 = 0)
\* The expanded operands of a separated list, in input order.
Operands(ts) ==
    [k \in 1..((Len(ts) + 1) \div 2) |-> visit_expr(ExprOf(ts[2 * k - 1], 2 * k - 1))]

\* C14: get_exprs_from_tts returns every expression in input order for a
\* well-formed input; on a missing separator or an empty element it emits a
\* non-fatal diagnostic and returns absent; it never raises a fatal error and
\* never returns a partial list.
C14_ExprsOrAbsent ==
    helper = "get_exprs_from_tts" =>
        /\ ~fatal
        /\ SeparatedList(tts) => ret = Some(Operands(tts))
        /\ ~SeparatedList(tts) => (ret = None /\ ErrorEmitted)

\* ======================================================================
\*  expansion_cause
\* ======================================================================

\* Marks are numbered in creation order; 0 is Mark::root(), which has no
\* expansion info.  The call site of a mark lies in code an earlier mark (or
\* the root) produced, so its context's outer mark is smaller.
Marks == 0..MaxMarks
\* The call site of mark m's macro: lo names the place, ctxt its context.
CallSite(m, parent) == [lo |-> m, ctxt |-> parent]
ExpnInfos(m) ==
    {None} \cup {Some([call_site |-> CallSite(m, q), name |-> nm]) :
                    q \in 0..(m - 1), nm \in {"include", "other"}}
ExpnTables ==
    {t \in [Marks -> UNION {ExpnInfos(m) : m \in Marks}] :
        \A m \in Marks : t[m] \in ExpnInfos(m)}

\* self.backtrace(): SyntaxContext::empty().apply_mark(current_expansion.mark),
\* whose outer mark is that mark.
backtrace == mark

\* One round of the loop: the closure given to map_or, on ctxt.outer().expn_info().
\* go is FALSE when the round breaks.
\* (cause_round_pastInclude: the include test left out)
cause_round_pastInclude(c, last) ==
    IF expn_info[c] = None THEN [go |-> FALSE, ctxt |-> c, last_macro |-> last]
    ELSE [go |-> TRUE, ctxt |-> Unwrap(expn_info[c]).call_site.ctxt,
          last_macro |-> Some(Unwrap(expn_info[c]).call_site)]
cause_round(c, last) ==
    IF expn_info[c] = None THEN [go |-> FALSE, ctxt |-> c, last_macro |-> last]
    ELSE LET info == Unwrap(expn_info[c])
         IN  IF info.name = "include"
             THEN [go |-> FALSE, ctxt |-> c, last_macro |-> last]
             ELSE [go |-> TRUE, ctxt |-> info.call_site.ctxt,
                   last_macro |-> Some(info.call_site)]

\* let mut ctxt = self.backtrace(); let mut last_macro = None;
expansion_cause_enter ==
    /\ cause = "none"
    /\ ctxt' = backtrace
    /\ last_macro' = None
    /\ cause' = "loop"
    /\ UNCHANGED <<expn_info, mark>>
    /\ UNCHANGED <<resolveVars, macVars, extVars, argVars, sessVars>>

\* One round of the loop; on break the function returns last_macro.
expansion_cause_round ==
    /\ cause = "loop"
    /\ LET r == cause_round(ctxt, last_macro)
       IN  /\ ctxt' = r.ctxt
           /\ last_macro' = r.last_macro
           /\ cause' = IF r.go THEN "loop" ELSE "done"
    /\ UNCHANGED <<expn_info, mark>>
    /\ UNCHANGED <<resolveVars, macVars, extVars, argVars, sessVars>>

InitCause ==
    /\ expn_info \in ExpnTables
    /\ mark \in Marks
    /\ ctxt = 0
    /\ last_macro = None
    /\ cause = "none"
    /\ IdleResolve
    /\ IdleMac
    /\ IdleExt
    /\ IdleArg
    /\ IdleSession

NextCause == expansion_cause_enter \/ expansion_cause_round

\* A running call keeps running: the loop is sequential code.
SpecCause == InitCause /\ [][NextCause]_vars /\ WF_vars(NextCause)

\* The identities from m outward: m, the identity of m's call site, and so
\* on, as far as there is expansion info.
RECURSIVE Chain(_)
Chain(m) ==
    IF expn_info[m] = None THEN <<>>
    ELSE <<m>> \o Chain(Unwrap(expn_info[m]).call_site.ctxt)
IsInclude(m) == Unwrap(expn_info[m]).name = "include"
\* The identities before the first one whose macro is include.
BeforeInclude(ch) ==
    LET B == {i \in 1..Len(ch) : IsInclude(ch[i])}
    IN  IF B = {} THEN ch
        ELSE SubSeq(ch, 1, (CHOOSE i \in B : \A j \in B : i <= j) - 1)
\* The call site of the last of them, if any.
CauseOf(m) ==
    LET v == BeforeInclude(Chain(m))
    IN  IF v = <<>> THEN None ELSE Some(Unwrap(expn_info[v[Len(v)]]).call_site)

\* C19: expansion_cause returns the call site of the last identity visited
\* before the first identity whose macro is `include`, or of the outermost
\* identity when there is no such boundary; absent when the current expansion
\* has no expansion info or is itself the include macro; and the walk ends on
\* every (finite) chain.
C19_CauseStopsAtInclude ==
    /\ [](cause = "done" =>
            /\ last_macro = CauseOf(mark)
            /\ (expn_info[mark] = None \/ IsInclude(mark)) => last_macro = None)
    /\ (cause = "none") ~> (cause = "done")
C19_Witness ==
    /\ cause = "done"
    /\ Len(Chain(mark)) = 3
    /\ IsInclude(Chain(mark)[3])
    /\ last_macro = Some(CallSite(Chain(mark)[2], Chain(mark)[3]))

\* ======================================================================
\*  The expansion session: nesting depth, non-fatal and fatal errors
\* ======================================================================

\* ExtCtxt::new: current_expansion of a new context.
\* (ExtCtxt_new_depthOne: the depth starts at one)
ExtCtxt_new_depthOne == [mark |-> 0, depth |-> 1]
ExtCtxt_new == [mark |-> 0, depth |-> 0]

\* The fragment being expanded and the invocations left in it.
Top == frames[Len(frames)]
InvocationLeft == session = "running" /\ Top.todo > 0
TakeOne == [frames EXCEPT ![Len(frames)].todo = @ - 1]
\* Expansion enters the output of the invocation: k invocations nested in
\* it, one level deeper; the frame keeps the depth to restore.
Enter(k) == Append(TakeOne, [saved |-> depth, todo |-> k])
Kids == 0..2

\* An invocation expands: its producer's output is expanded in turn.
expand_invoc ==
    /\ InvocationLeft
    /\ depth <= recursion_limit
    /\ \E k \in Kids :
        /\ found + k <= MaxExpand
        /\ frames' = Enter(k)
        /\ found' = found + k
    /\ depth' = depth + 1
    /\ producers' = Append(producers, [impl |-> "MacEager"])
    /\ UNCHANGED <<session, sink>>
    /\ UNCHANGED <<resolveVars, macVars, extVars, argVars, causeVars>>

\* An invocation fails (malformed arguments, ...): cx.span_err, and the
\* producer is DummyResult::any.
expand_invoc_err ==
    /\ InvocationLeft
    /\ depth <= recursion_limit
    /\ \E sp \in Spans :
        LET r == span_err(sink, "expansion failed")
        IN  /\ sink' = r.diags
            /\ IF r.raise
               THEN session' = "unwound" /\ UNCHANGED <<frames, producers>>
               ELSE /\ frames' = TakeOne
                    /\ producers' = Append(producers, DummyResult_any(sp))
                    /\ UNCHANGED session
    /\ UNCHANGED <<depth, found>>
    /\ UNCHANGED <<resolveVars, macVars, extVars, argVars, causeVars>>

\* An invocation nested deeper than the limit: cx.span_fatal.  Were it not
\* to raise, expansion would go on into the invocation.
depth_exceeded ==
    /\ InvocationLeft
    /\ depth > recursion_limit
    /\ depth <= recursion_limit + 2
    /\ LET r == span_fatal(sink, "recursion limit reached")
       IN  /\ sink' = r.diags
           /\ IF r.raise
              THEN session' = "unwound" /\ UNCHANGED <<frames, depth, producers>>
              ELSE /\ frames' = Enter(0)
                   /\ depth' = depth + 1
                   /\ producers' = Append(producers, [impl |-> "MacEager"])
                   /\ UNCHANGED session
    /\ UNCHANGED found
    /\ UNCHANGED <<resolveVars, macVars, extVars, argVars, causeVars>>

\* A fragment is done: back to the enclosing one, the depth restored.
return_from_invoc ==
    /\ session = "running"
    /\ Len(frames) > 1
    /\ Top.todo = 0
    /\ depth' = Top.saved
    /\ frames' = SubSeq(frames, 1, Len(frames) - 1)
    /\ UNCHANGED <<session, sink, producers, found>>
    /\ UNCHANGED <<resolveVars, macVars, extVars, argVars, causeVars>>

\* The phase ends: span_diagnostic.abort_if_errors().
end_of_phase ==
    /\ session = "running"
    /\ Len(frames) = 1
    /\ Top.todo = 0
    /\ session' = IF \E i \in 1..Len(sink) : sink[i].level = "error"
                  THEN "aborted" ELSE "finished"
    /\ UNCHANGED <<depth, frames, sink, producers, found>>
    /\ UNCHANGED <<resolveVars, macVars, extVars, argVars, causeVars>>

InitSession ==
    /\ session = "running"
    /\ depth = ExtCtxt_new.depth
    /\ \E k \in 1..2 :
        /\ frames = <<[saved |-> ExtCtxt_new.depth, todo |-> k]>>
        /\ found = k
    /\ sink = <<>>
    /\ producers = <<>>
    /\ IdleResolve
    /\ IdleMac
    /\ IdleExt
    /\ IdleArg
    /\ IdleCause

NextSession ==
    \/ expand_invoc
    \/ expand_invoc_err
    \/ depth_exceeded
    \/ return_from_invoc
    \/ end_of_phase

SpecSession == InitSession /\ [][NextSession]_vars

HasLevel(ds, level) == \E i \in 1..Len(ds) : ds[i].level = level
CountLevel(ds, level) == Cardinality({i \in 1..Len(ds) : ds[i].level = level})
Recovered == {i \in 1..Len(producers) : producers[i].impl = "DummyResult"}

\* C15: an invocation nested deeper than the configured maximum raises a
\* fatal condition that unwinds the session; it is never reported as a
\* non-fatal error after which expansion goes on deeper.
C15_DepthExhaustionIsFatal ==
    /\ [](session # "idle" => depth <= recursion_limit + 1)
    /\ [](HasLevel(sink, "fatal") => session = "unwound")
    /\ [][(InvocationLeft /\ depth > recursion_limit) =>
            /\ session' = "unwound"
            /\ sink' = Append(sink, Diag("fatal", "recursion limit reached"))
            /\ depth' = depth]_vars
    /\ [][session = "unwound" => UNCHANGED sessVars]_vars
C15_Witness ==
    /\ session = "unwound"
    /\ depth = recursion_limit + 1
    /\ HasLevel(sink, "fatal")

\* C16: the nesting depth follows stack discipline: 0 in a new context, one
\* more inside each nested invocation, and restored on return, so that it
\* always equals the number of invocations expansion is inside of.
C16_DepthIsStackHeight ==
    /\ [](session # "idle" => depth = Len(frames) - 1)
    /\ [](session # "idle" =>
            \A i \in 1..Len(frames) : frames[i].saved = IF i = 1 THEN 0 ELSE i - 2)
    /\ [][Len(frames') > Len(frames) => depth' > depth]_vars
    /\ [][(frames # <<>> /\ Len(frames') < Len(frames)) => depth' = Top.saved]_vars
C16_Witness ==
    /\ session = "running"
    /\ depth = 1
    /\ Len(frames) = 2
    /\ Len(producers) >= 3

\* C18: a non-fatal error is recorded in the sink without unwinding, the
\* failing invocation's producer becomes the error-recovery producer and
\* every sibling is still dealt with; compilation is aborted only at the end
\* of the phase; a fatal error unwinds the session at once and nothing is
\* reported afterwards.
C18_ErrorsAccumulateFatalUnwinds ==
    /\ [][(session = "running" /\ sink' # sink /\ sink'[Len(sink')].level = "error") =>
            /\ session' = "running"
            /\ depth' = depth
            /\ Len(frames') = Len(frames)
            /\ producers'[Len(producers')].impl = "DummyResult"
            /\ Len(producers') = Len(producers) + 1]_vars
    /\ [](session \in {"running", "aborted", "finished"} =>
            /\ Cardinality(Recovered) = CountLevel(sink, "error")
            /\ ~HasLevel(sink, "fatal"))
    /\ [](session = "aborted" => (Len(producers) = found /\ HasLevel(sink, "error")))
    /\ [](session = "finished" => (Len(producers) = found /\ sink = <<>>))
    /\ [](session = "unwound" => sink[Len(sink)].level = "fatal")
    /\ [][session = "unwound" => sink' = sink]_vars
C18_Witness ==
    /\ session = "aborted"
    /\ Len(producers) >= 3
    /\ producers[1].impl = "DummyResult"
    /\ producers[Len(producers)].impl = "MacEager"

====
